---- MODULE Spec2Model ----
(***************************************************************************)
(* Model of MusicDownloader._get_audio_from_m3u8                           *)
(* (src/vk_audio_downloader.py): the asyncio job that downloads the        *)
(* segments of an m3u8 playlist under a semaphore and a per-task           *)
(* wait_for timeout, decrypts the AES-128 ones and joins the result slots. *)
(*                                                                         *)
(* Bytes are naturals 0..255 and a byte string is a sequence of them.      *)
(* Python's None is the one-element sequence <<-1>>, which no byte string  *)
(* equals.  An exception is the name of its class; "None" is no exception. *)
(***************************************************************************)
EXTENDS Integers, Sequences, FiniteSets, TLC

VARIABLES
    parsed_m3u8,        \* the argument: sequence of [name, key_uri]
    server,             \* environment: what the HTTP server answers per segment
    capacity,           \* the value Semaphore() was constructed with
    semaphore,          \* free permits of the semaphore
    downloaded_chunks,  \* the result slots, [None] * len(parsed_m3u8)
    pc,                 \* position of every wait_for(handle_segment(...)) task
    content,            \* handle_segment's local `content` of every task
    requests,           \* per task: GETs issued for the segment and for the key,
                        \*           and calls of decode_aes_128 (instrumentation)
    gather_exc,         \* the first exception a task handed to gather()
    job,                \* position of _get_audio_from_m3u8 itself
    error,              \* the exception _get_audio_from_m3u8 raised
    output,             \* the value _get_audio_from_m3u8 returned
    dec,                \* one call of decode_aes_128 on its own: input and result
    res,                \* one resolution of a segment URI: input and result
    operation,          \* the public method that runs the job
    files,              \* the destination file and the temporary file
    save                \* how the public method's write ended

vars == <<parsed_m3u8, server, capacity, semaphore, downloaded_chunks, pc,
          content, requests, gather_exc, job, error, output, dec, res,
          operation, files, save>>

-----------------------------------------------------------------------------
(* Bounds of the model *)

MaxSegments == 2      \* longest playlist
MaxCapacity == 2      \* largest semaphore capacity (MAX_TASKS is 10 in the source)
MaxPlainLen == 2      \* longest short plaintext drawn for decode_aes_128
MaxComponents == 2    \* most path components of a playlist URL

(* Constants of the program *)

REQUEST_STATUS_CODE == 200
IV_LEN == 16
BLOCK_SIZE == 16

None == << -1 >>
NoUri == "None"
NoExc == "None"

-----------------------------------------------------------------------------
(* Byte strings *)

Min(a, b) == IF a < b THEN a ELSE b

Rep(b, n) == [i \in 1..n |-> b]

\* data[lo:] and data[:hi] of Python, on 0-based offsets
SliceFrom(data, lo) == SubSeq(data, Min(lo, Len(data)) + 1, Len(data))
SliceTo(data, hi) == SubSeq(data, 1, Min(hi, Len(data)))

RECURSIVE XorByte(_, _)
XorByte(a, b) ==
    IF a = 0 /\ b = 0 THEN 0
    ELSE (((a % 2) + (b % 2)) % 2) + (2 * XorByte(a \div 2, b \div 2))

XorBlock(x, y) == [i \in 1..BLOCK_SIZE |-> XorByte(x[i], y[i])]

RECURSIVE Concat(_)
Concat(chunks) ==
    IF Len(chunks) = 0 THEN << >>
    ELSE Head(chunks) \o Concat(Tail(chunks))

-----------------------------------------------------------------------------
(* Crypto.Cipher.AES and Crypto.Util.Padding, as decode_aes_128 uses them.  *)
(* The block cipher itself is library code: it is modelled by a keyed       *)
(* permutation of 16-byte blocks (rotate the block by one byte, add the key *)
(* byte-wise); CBC chaining and PKCS#7 padding are modelled as they are.    *)

AesKeySizes == {16, 24, 32}

AesEncryptBlock(key, b) ==
    [i \in 1..BLOCK_SIZE |-> (b[(i % BLOCK_SIZE) + 1] + key[i]) % 256]

AesDecryptBlock(key, c) ==
    [j \in 1..BLOCK_SIZE |->
        LET i == IF j = 1 THEN BLOCK_SIZE ELSE j - 1
        IN  ((c[i] + 256) - key[i]) % 256]

\* cipher.decrypt(ciphertext) in MODE_CBC: p[n] = D(c[n]) xor c[n-1], c[0] = iv
RECURSIVE CbcDecrypt(_, _, _)
CbcDecrypt(key, prev, ciphertext) ==
    IF Len(ciphertext) = 0 THEN << >>
    ELSE LET c == SubSeq(ciphertext, 1, BLOCK_SIZE)
         IN  XorBlock(AesDecryptBlock(key, c), prev)
                \o CbcDecrypt(key, c, SliceFrom(ciphertext, BLOCK_SIZE))

\* unpad(padded_data, block_size) of Crypto.Util.Padding, style pkcs7
Unpad(padded) ==
    LET n == Len(padded)
        padding_len == padded[n]
    IN  IF n = 0 \/ n % BLOCK_SIZE # 0 THEN [exc |-> "ValueError", val |-> << >>]
        ELSE IF padding_len < 1 \/ padding_len > Min(BLOCK_SIZE, n)
             THEN [exc |-> "ValueError", val |-> << >>]
        ELSE IF SliceFrom(padded, n - padding_len) # Rep(padding_len, padding_len)
             THEN [exc |-> "ValueError", val |-> << >>]
        ELSE [exc |-> NoExc, val |-> SliceTo(padded, n - padding_len)]

\* iv = data[0:16]
IvOf(data) == SliceTo(data, IV_LEN)

\* mutant: the whole payload is decrypted, the IV prefix included
CipheredOf_WholePayload(data) == data

\* ciphered_data = data[16:]
CipheredOf(data) == SliceFrom(data, IV_LEN)

\* data[0:16] raises TypeError exactly when data is None; that is the one
\* exception decode_aes_128 catches
SliceRaisesTypeError(data) == data = None

\* decode_aes_128(data, key): [exc |-> the exception raised, val |-> the result]
decode_aes_128(data, key) ==
    IF SliceRaisesTypeError(data) THEN [exc |-> NoExc, val |-> << >>]
    ELSE LET iv == IvOf(data)
             ciphered_data == CipheredOf(data)
         IN  IF key = None THEN [exc |-> "TypeError", val |-> << >>]
             ELSE IF Len(key) \notin AesKeySizes
                  THEN [exc |-> "ValueError", val |-> << >>]
             ELSE IF Len(iv) # BLOCK_SIZE
                  THEN [exc |-> "ValueError", val |-> << >>]
             ELSE IF Len(ciphered_data) % BLOCK_SIZE # 0
                  THEN [exc |-> "ValueError", val |-> << >>]
             ELSE Unpad(CbcDecrypt(key, iv, ciphered_data))

-----------------------------------------------------------------------------
(* The sender's side of a segment: pad, encrypt in CBC mode, prefix the IV. *)

Pad(plain) ==
    LET n == BLOCK_SIZE - (Len(plain) % BLOCK_SIZE)
    IN  plain \o Rep(n, n)

RECURSIVE CbcEncrypt(_, _, _)
CbcEncrypt(key, prev, padded) ==
    IF Len(padded) = 0 THEN << >>
    ELSE LET c == AesEncryptBlock(key, XorBlock(SubSeq(padded, 1, BLOCK_SIZE), prev))
         IN  c \o CbcEncrypt(key, c, SliceFrom(padded, BLOCK_SIZE))

EncryptedPayload(plain, key, iv) == iv \o CbcEncrypt(key, iv, Pad(plain))

-----------------------------------------------------------------------------
(* The environment: the playlists a job is given and what the server        *)
(* answers.  A segment's case names its descriptor and the two responses.   *)

Key1 == [i \in 1..BLOCK_SIZE |-> (7 * i) % 256]
Key2 == [i \in 1..BLOCK_SIZE |-> 255 - i]
Iv1 == [i \in 1..IV_LEN |-> ((13 * i) + 5) % 256]
Iv2 == Rep(0, IV_LEN)

SegCases == {"plain_ok", "plain_404", "enc_ok", "enc_badpad", "enc_key404"}
Encrypted(case) == case \in {"enc_ok", "enc_badpad", "enc_key404"}

\* the plaintext of the segment at index i; different at every index
PlainOf(i) == << 64 + i, i >>

\* a payload whose last decrypted block does not end in PKCS#7 padding
BadPadPayload(key, iv) == iv \o CbcEncrypt(key, iv, Rep(0, BLOCK_SIZE))

SegmentResponse(i, case) ==
    CASE case = "plain_ok"   -> [status |-> 200, body |-> PlainOf(i)]
      [] case = "plain_404"  -> [status |-> 404, body |-> << >>]
      [] case = "enc_ok"     -> [status |-> 200, body |-> EncryptedPayload(PlainOf(i), Key1, Iv1)]
      [] case = "enc_badpad" -> [status |-> 200, body |-> BadPadPayload(Key1, Iv1)]
      [] case = "enc_key404" -> [status |-> 200, body |-> EncryptedPayload(PlainOf(i), Key1, Iv1)]

KeyResponse(case) ==
    IF case = "enc_key404" THEN [status |-> 404, body |-> << >>]
    ELSE [status |-> 200, body |-> Key1]

\* the descriptor _parse_m3u8 produces for a segment of that case
Descriptor(i, case) ==
    [name |-> i, key_uri |-> IF Encrypted(case) THEN "key.pub" ELSE NoUri]

-----------------------------------------------------------------------------
(* Segment URIs.  A string is the sequence of its characters. *)

INDEX_M3U8 == <<"i", "n", "d", "e", "x", ".", "m", "3", "u", "8">>

\* s[at:].startswith(old), at counted from 1
StartsWith(s, old, at) ==
    /\ (at + Len(old)) - 1 <= Len(s)
    /\ SubSeq(s, at, (at + Len(old)) - 1) = old

\* str.replace(old, new) for a non-empty old: every occurrence, found from
\* the left and not overlapping, is replaced
RECURSIVE StrReplace(_, _, _)
StrReplace(s, old, new) ==
    IF Len(s) = 0 THEN << >>
    ELSE IF StartsWith(s, old, 1)
         THEN new \o StrReplace(SliceFrom(s, Len(old)), old, new)
    ELSE <<Head(s)>> \o StrReplace(Tail(s), old, new)

\* segment_uri = m3u8_url.replace("index.m3u8", segment["name"])
segment_uri(m3u8_url, name) == StrReplace(m3u8_url, INDEX_M3U8, name)

ResIdle == [url |-> << >>, name |-> << >>, uri |-> None]

-----------------------------------------------------------------------------
(* The public methods and the files they write *)

Operations ==
    {"download_audio_by_id", "download_audio_by_id_mp3", "download_by_m3u8_url"}

\* no file at that path
Absent == None

\* what a destination left by an earlier run holds
OldFile == <<79, 76, 68>>

NoFiles == [before |-> Absent, dest |-> Absent, temp |-> Absent]
NotSaved == [state |-> "pending", exc |-> NoExc]

\* what `ffmpeg -i temp -vn -acodec copy -y mp3_path` leaves at mp3_path when
\* it succeeds: the audio stream in another container
Transcoded(data) == <<73, 68, 51>> \o data

\* _write_to_file(data, path): open(path, "wb+") truncates or creates the file
WriteToFile(data) == data

\* os.path.isfile(mp3_path)
IsFile(file) == file # Absent

-----------------------------------------------------------------------------
(* _get_audio_from_m3u8 *)

Tasks == 1..Len(parsed_m3u8)

Pending == {"acquire_seg", "get_seg", "acquire_key", "get_key"}
InFlight == {"get_seg", "get_key"}
Terminal == {"done", "failed", "timeout", "cancelled"}

NoRequests == [seg |-> 0, key |-> 0, dec |-> 0]
DecIdle == [plain |-> None, iv |-> None, data |-> None, key |-> None,
            out |-> [exc |-> "pending", val |-> << >>]]

\* return content if res.status == REQUEST_STATUS_CODE else None
download_chunk(response) ==
    IF response.status = REQUEST_STATUS_CODE THEN response.body ELSE None

\* mutant: download_chunk without the `async with semaphore`
CanAcquire_NoGate == TRUE

\* `async with semaphore` lets a task in when a permit is free
CanAcquire == semaphore > 0

\* mutant: the key is fetched and the payload decoded for every segment
NeedsKey_Always(segment) == TRUE

\* if segment["key_uri"] is not None
NeedsKey(segment) == segment.key_uri # NoUri

\* mutant: a fold without an initial value, which raises on no chunks
JoinChunks_NoInitial(chunks) ==
    IF Len(chunks) = 0 \/ \E i \in 1..Len(chunks) : chunks[i] = None
    THEN [exc |-> "TypeError", val |-> << >>]
    ELSE [exc |-> NoExc, val |-> Concat(chunks)]

\* b''.join(downloaded_chunks): a None item raises TypeError
JoinChunks(chunks) ==
    IF \E i \in 1..Len(chunks) : chunks[i] = None
    THEN [exc |-> "TypeError", val |-> << >>]
    ELSE [exc |-> NoExc, val |-> Concat(chunks)]

\* mutant: the permit is kept when the response has been read
AfterResponse_Kept == semaphore

\* leaving `async with semaphore` after the response was read gives the
\* permit back
AfterResponse == semaphore + 1

\* mutant: a cancelled task gives its permit back nowhere
AfterCancel_Leak(i) == semaphore

\* mutant: a cancelled task gives a permit back even when it holds none
AfterCancel_AlwaysRelease(i) == semaphore + 1

\* a task cancelled inside `async with semaphore` leaves it and gives the
\* permit back; a task cancelled while it waits to enter holds none
AfterCancel(i) == IF pc[i] \in InFlight THEN semaphore + 1 ELSE semaphore

\* mutant: the awaiter resumes as soon as one task returned
GatherDone_FirstCompleted == \E i \in Tasks : pc[i] = "done"

\* `await gather(*tasks)` returns when every task returned
GatherDone == \A i \in Tasks : pc[i] = "done"

\* mutant: the result is stored at the mirrored index
SlotsAfter_Mirrored(i, result) ==
    [downloaded_chunks EXCEPT ![(Len(downloaded_chunks) + 1) - i] = result]

\* gather() hands the first exception of a child to its awaiter
FirstExc(exc) == IF gather_exc = NoExc THEN exc ELSE gather_exc

\* the slots after a task ended handle_segment with `result`:
\* handle_segment never assigns downloaded_chunks[segment_index]
SlotsAfter(i, result) == downloaded_chunks

Init ==
    /\ \E n \in 0..MaxSegments : \E cases \in [1..n -> SegCases] :
          /\ server = cases
          /\ parsed_m3u8 = [i \in 1..n |-> Descriptor(i, cases[i])]
          /\ downloaded_chunks = [i \in 1..n |-> None]
          /\ pc = [i \in 1..n |-> "created"]
          /\ content = [i \in 1..n |-> None]
          /\ requests = [i \in 1..n |-> NoRequests]
    /\ capacity \in 1..MaxCapacity
    /\ semaphore = capacity
    /\ gather_exc = NoExc
    /\ job = "init"
    /\ error = NoExc
    /\ output = None
    /\ dec = DecIdle
    /\ res = ResIdle
    /\ operation \in Operations
    /\ \E before \in {Absent, OldFile} :
          files = [before |-> before, dest |-> before, temp |-> Absent]
    /\ save = NotSaved

\* run(download()) up to the await of gather(): every wait_for task is
\* scheduled and runs to its first `async with semaphore`
Gather ==
    /\ job = "init"
    /\ job' = "running"
    /\ pc' = [i \in Tasks |-> "acquire_seg"]
    /\ UNCHANGED <<parsed_m3u8, server, capacity, semaphore, downloaded_chunks,
                   content, requests, gather_exc, error, output, dec, res, operation, files, save>>

\* download_chunk(segment_uri): enter the semaphore, session.get(url)
AcquireSeg(i) ==
    /\ job = "running"
    /\ pc[i] = "acquire_seg"
    /\ CanAcquire
    /\ semaphore' = semaphore - 1
    /\ pc' = [pc EXCEPT ![i] = "get_seg"]
    /\ requests' = [requests EXCEPT ![i].seg = @ + 1]
    /\ UNCHANGED <<parsed_m3u8, server, capacity, downloaded_chunks, content,
                   gather_exc, job, error, output, dec, res, operation, files, save>>

\* the segment's response arrives: leave the semaphore; an unencrypted
\* segment ends handle_segment here
SegArrives(i) ==
    /\ job = "running"
    /\ pc[i] = "get_seg"
    /\ semaphore' = AfterResponse
    /\ LET got == download_chunk(SegmentResponse(i, server[i]))
       IN  /\ content' = [content EXCEPT ![i] = got]
           /\ IF NeedsKey(parsed_m3u8[i])
              THEN /\ pc' = [pc EXCEPT ![i] = "acquire_key"]
                   /\ UNCHANGED downloaded_chunks
              ELSE /\ pc' = [pc EXCEPT ![i] = "done"]
                   /\ downloaded_chunks' = SlotsAfter(i, got)
    /\ UNCHANGED <<parsed_m3u8, server, capacity, requests, gather_exc, job,
                   error, output, dec, res, operation, files, save>>

\* download_chunk(segment["key_uri"]): enter the semaphore again
AcquireKey(i) ==
    /\ job = "running"
    /\ pc[i] = "acquire_key"
    /\ CanAcquire
    /\ semaphore' = semaphore - 1
    /\ pc' = [pc EXCEPT ![i] = "get_key"]
    /\ requests' = [requests EXCEPT ![i].key = @ + 1]
    /\ UNCHANGED <<parsed_m3u8, server, capacity, downloaded_chunks, content,
                   gather_exc, job, error, output, dec, res, operation, files, save>>

\* the key's response arrives: leave the semaphore, decode_aes_128(content, key);
\* an exception of decode_aes_128 ends the task and reaches gather()
KeyArrives(i) ==
    /\ job = "running"
    /\ pc[i] = "get_key"
    /\ semaphore' = AfterResponse
    /\ requests' = [requests EXCEPT ![i].dec = @ + 1]
    /\ LET key == download_chunk(KeyResponse(server[i]))
           decoded == decode_aes_128(content[i], key)
       IN  IF decoded.exc # NoExc
           THEN /\ pc' = [pc EXCEPT ![i] = "failed"]
                /\ gather_exc' = FirstExc(decoded.exc)
                /\ UNCHANGED <<content, downloaded_chunks>>
           ELSE /\ pc' = [pc EXCEPT ![i] = "done"]
                /\ content' = [content EXCEPT ![i] = decoded.val]
                /\ downloaded_chunks' = SlotsAfter(i, decoded.val)
                /\ UNCHANGED gather_exc
    /\ UNCHANGED <<parsed_m3u8, server, capacity, job, error, output, dec, res, operation, files, save>>

\* wait_for(..., timeout=MAX_TIME) expires: the task is cancelled where it
\* is suspended (leaving the semaphore if it is inside) and raises
\* TimeoutError.  A task is suspended in a request, or at the semaphore when
\* no permit is free (with a free permit it enters without suspending).
Timeout(i) ==
    /\ job = "running"
    /\ pc[i] \in Pending
    /\ pc[i] \in InFlight \/ ~CanAcquire
    /\ semaphore' = AfterCancel(i)
    /\ pc' = [pc EXCEPT ![i] = "timeout"]
    /\ gather_exc' = FirstExc("TimeoutError")
    /\ UNCHANGED <<parsed_m3u8, server, capacity, downloaded_chunks, content,
                   requests, job, error, output, dec, res, operation, files, save>>

\* gather() (return_exceptions is False) raises the first exception into
\* download(); the session closes, run() cancels the tasks still pending and
\* re-raises
Propagate ==
    /\ job = "running"
    /\ gather_exc # NoExc
    /\ job' = "run_raised"
    /\ error' = gather_exc
    /\ pc' = [i \in Tasks |-> IF pc[i] \in Pending THEN "cancelled" ELSE pc[i]]
    /\ semaphore' = semaphore + Cardinality({i \in Tasks : pc[i] \in InFlight})
    /\ UNCHANGED <<parsed_m3u8, server, capacity, downloaded_chunks, content,
                   requests, gather_exc, output, dec, res, operation, files, save>>

\* every task returned: run() returns and b''.join(downloaded_chunks) runs
Return ==
    /\ job = "running"
    /\ GatherDone
    /\ LET joined == JoinChunks(downloaded_chunks)
       IN  IF joined.exc # NoExc
           THEN /\ job' = "join_raised"
                /\ error' = joined.exc
                /\ UNCHANGED output
           ELSE /\ job' = "returned"
                /\ output' = joined.val
                /\ UNCHANGED error
    /\ UNCHANGED <<parsed_m3u8, server, capacity, semaphore, downloaded_chunks,
                   pc, content, requests, gather_exc, dec, res, operation, files, save>>

\* download_audio_by_id without convert_to_mp3, and download_by_m3u8_url:
\* _write_to_file(segments_binary_data, path=audio_path)
SaveTs ==
    /\ job = "returned"
    /\ save.state = "pending"
    /\ operation \in {"download_audio_by_id", "download_by_m3u8_url"}
    /\ files' = [files EXCEPT !.dest = WriteToFile(output)]
    /\ save' = [state |-> "written", exc |-> NoExc]
    /\ UNCHANGED <<parsed_m3u8, server, capacity, semaphore, downloaded_chunks,
                   pc, content, requests, gather_exc, job, error, output, dec,
                   res, operation>>

\* download_audio_by_id with convert_to_mp3: _write_to_mp3.  The temporary
\* file is written and removed again; ffmpeg runs only when no file is at
\* mp3_path, and its exit status is not looked at.
SaveMp3 ==
    /\ job = "returned"
    /\ save.state = "pending"
    /\ operation = "download_audio_by_id_mp3"
    /\ IF ~IsFile(files.dest)
       THEN /\ \E converted \in BOOLEAN :
                  files' = [files EXCEPT
                               !.temp = Absent,
                               !.dest = IF converted
                                        THEN Transcoded(WriteToFile(output))
                                        ELSE Absent]
            /\ save' = [state |-> "written", exc |-> NoExc]
       ELSE /\ files' = [files EXCEPT !.temp = Absent]
            /\ save' = [state |-> "raised", exc |-> "Exception"]
    /\ UNCHANGED <<parsed_m3u8, server, capacity, semaphore, downloaded_chunks,
                   pc, content, requests, gather_exc, job, error, output, dec,
                   res, operation>>

Next ==
    \/ Gather
    \/ \E i \in Tasks : AcquireSeg(i)
    \/ \E i \in Tasks : SegArrives(i)
    \/ \E i \in Tasks : AcquireKey(i)
    \/ \E i \in Tasks : KeyArrives(i)
    \/ \E i \in Tasks : Timeout(i)
    \/ Propagate
    \/ Return
    \/ SaveTs
    \/ SaveMp3

Spec == Init /\ [][Next]_vars

-----------------------------------------------------------------------------
(* decode_aes_128 on its own: one call on an input drawn from the honest    *)
(* payloads (IV followed by the CBC encryption of a padded plaintext) and   *)
(* from payloads and keys a failed or hostile fetch can deliver.            *)

PlainBytes == {1, 16, 255}
LongLens == {15, 16, 17}

Plaintexts ==
    UNION {[1..n -> PlainBytes] : n \in 0..MaxPlainLen}
        \cup {Rep(b, n) : b \in PlainBytes, n \in LongLens}

HonestInputs ==
    {[plain |-> p, iv |-> iv, data |-> EncryptedPayload(p, k, iv), key |-> k,
      out |-> DecIdle.out] : p \in Plaintexts, k \in {Key1, Key2}, iv \in {Iv1, Iv2}}

OddPayloads ==
    {None, << >>, <<1, 2, 3>>, Rep(7, 15), Iv1, Iv1 \o <<1, 2, 3>>,
     BadPadPayload(Key1, Iv1), EncryptedPayload(<<1>>, Key1, Iv1)}

OddKeys == {None, <<1, 2, 3>>, Key1}

OddInputs ==
    {[plain |-> None, iv |-> None, data |-> d, key |-> k, out |-> DecIdle.out] :
        d \in OddPayloads, k \in OddKeys}

DecInit ==
    /\ operation = "download_by_m3u8_url"
    /\ files = NoFiles
    /\ save = NotSaved
    /\ dec \in HonestInputs \cup OddInputs
    /\ res = ResIdle
    /\ parsed_m3u8 = << >>
    /\ server = << >>
    /\ capacity = 1
    /\ semaphore = 1
    /\ downloaded_chunks = << >>
    /\ pc = << >>
    /\ content = << >>
    /\ requests = << >>
    /\ gather_exc = NoExc
    /\ job = "init"
    /\ error = NoExc
    /\ output = None

Decode ==
    /\ dec.out.exc = "pending"
    /\ dec' = [dec EXCEPT !.out = decode_aes_128(dec.data, dec.key)]
    /\ UNCHANGED <<parsed_m3u8, server, capacity, semaphore, downloaded_chunks,
                   pc, content, requests, gather_exc, job, error, output, res, operation, files, save>>

DecNext == Decode

DecSpec == DecInit /\ [][DecNext]_vars

-----------------------------------------------------------------------------
(* The resolution of a segment URI on its own: one call on a playlist URL   *)
(* of one or more path components and a segment name.                       *)

Components ==
    {INDEX_M3U8, <<"a">>, <<"x">> \o INDEX_M3U8, <<"p", ".", "m", "3", "u", "8">>}

SegmentNames == {<<"s", "0">>, <<"s", "1">>, <<"d", "/", "s">>}

RECURSIVE JoinPath(_)
JoinPath(components) ==
    IF Len(components) = 0 THEN << >>
    ELSE <<"/">> \o Head(components) \o JoinPath(Tail(components))

PlaylistUrls ==
    {<<"h">> \o JoinPath(c) :
        c \in UNION {[1..n -> Components] : n \in 1..MaxComponents}}

UrlInit ==
    /\ operation = "download_by_m3u8_url"
    /\ files = NoFiles
    /\ save = NotSaved
    /\ res \in {[url |-> u, name |-> n, uri |-> None] :
                   u \in PlaylistUrls, n \in SegmentNames}
    /\ dec = DecIdle
    /\ parsed_m3u8 = << >>
    /\ server = << >>
    /\ capacity = 1
    /\ semaphore = 1
    /\ downloaded_chunks = << >>
    /\ pc = << >>
    /\ content = << >>
    /\ requests = << >>
    /\ gather_exc = NoExc
    /\ job = "init"
    /\ error = NoExc
    /\ output = None

Resolve ==
    /\ res.uri = None
    /\ res' = [res EXCEPT !.uri = segment_uri(res.url, res.name)]
    /\ UNCHANGED <<parsed_m3u8, server, capacity, semaphore, downloaded_chunks,
                   pc, content, requests, gather_exc, job, error, output, dec, operation, files, save>>

UrlNext == Resolve

UrlSpec == UrlInit /\ [][UrlNext]_vars

-----------------------------------------------------------------------------
(* Properties *)

Ended == {"run_raised", "join_raised", "returned"}
OkCases == {"plain_ok", "enc_ok"}

\* what handle_segment computes for index i when both fetches answer
SequentialPlain(i) ==
    LET body == download_chunk(SegmentResponse(i, server[i]))
    IN  IF parsed_m3u8[i].key_uri # NoUri
        THEN decode_aes_128(body, download_chunk(KeyResponse(server[i]))).val
        ELSE body

\* fetch, decrypt and concatenate strictly in index order
SequentialReference == Concat([i \in Tasks |-> SequentialPlain(i)])

InFlightCount == Cardinality({i \in Tasks : pc[i] \in InFlight})

\* C1: when the job has ended and every fetch and decryption succeeded, the
\* job returned exactly the bytes of the sequential reference, in index order.
C1_OrderInvariance ==
    (job \in Ended /\ \A i \in Tasks : server[i] \in OkCases /\ pc[i] = "done")
        => (job = "returned" /\ output = SequentialReference)

\* C2: the number of HTTP requests in flight (segment and key GETs issued and
\* not yet answered or aborted) never exceeds the semaphore's capacity.
C2_ConcurrencyBound == InFlightCount <= capacity

C2_Witness ==
    /\ InFlightCount = capacity
    /\ \E i \in Tasks : pc[i] = "get_key"
    /\ \E i \in Tasks : pc[i] \in {"acquire_seg", "acquire_key"}

\* C3: when the job has ended with exactly one task timed out and no other
\* fetch failing, the job returned (no error): every other index contributes
\* its bytes at its position and the timed-out index contributes nothing.
C3_TimeoutIsolation ==
    \A t \in Tasks :
        (/\ job \in Ended
         /\ pc[t] = "timeout"
         /\ \A i \in Tasks \ {t} :
               server[i] \in OkCases /\ pc[i] \notin {"timeout", "failed"})
        => (/\ job = "returned"
            /\ \A i \in Tasks \ {t} : pc[i] = "done"
            /\ output = Concat([i \in Tasks |->
                                   IF i = t THEN << >> ELSE SequentialPlain(i)]))

\* C4: once the join barrier is passed (the concatenation has run), the slot
\* of every task that finished successfully holds that task's resulting bytes.
C4_WriteToSlot ==
    job \in {"returned", "join_raised"}
        => \A i \in Tasks : pc[i] = "done" => downloaded_chunks[i] = content[i]

\* C5: whenever the final concatenation has run, it returned a byte sequence
\* in which every slot still unset contributes zero bytes; it raised nothing.
C5_UnsetSlotsEmpty ==
    job \in {"returned", "join_raised"}
        => (/\ job = "returned"
            /\ output = Concat([i \in Tasks |->
                                   IF downloaded_chunks[i] = None THEN << >>
                                   ELSE downloaded_chunks[i]]))

\* C6: with an empty playlist the job issues no request, raises nothing, can
\* always take its return step while running, and returns the empty bytes.
C6_EmptyPlaylist ==
    Len(parsed_m3u8) = 0
        => (/\ job \in {"init", "running", "returned"}
            /\ error = NoExc /\ gather_exc = NoExc
            /\ semaphore = capacity
            /\ (job = "running" => ENABLED Return)
            /\ (job = "returned" => output = << >>))

C6_Witness == Len(parsed_m3u8) = 0 /\ job = "returned" /\ output = << >>

\* C7: a failed fetch or a padding error in one task (an exception of
\* decode_aes_128 handed to gather) never makes the job raise out of run()
\* and never cancels a sibling task.
C7_FailuresLocal ==
    gather_exc \in {"ValueError", "TypeError"}
        => (job # "run_raised" /\ \A j \in Tasks : pc[j] # "cancelled")

\* C8: decode_aes_128 given an absent payload (None) or one shorter than 16
\* bytes raises nothing and returns empty content.
C8_ShortInputEmpty ==
    (dec.out.exc # "pending" /\ (dec.data = None \/ Len(dec.data) < IV_LEN))
        => dec.out = [exc |-> NoExc, val |-> << >>]

\* C9: no segment is requested twice and no key is requested twice for one
\* segment; an unencrypted segment never triggers a key request or a decode;
\* a task that returned fetched its key and decoded exactly when its key_uri
\* is present; key requests never outnumber the encrypted segments.
C9_FetchCounts ==
    /\ \A i \in Tasks :
          /\ requests[i].seg <= 1 /\ requests[i].key <= 1 /\ requests[i].dec <= 1
          /\ parsed_m3u8[i].key_uri = NoUri
                => (requests[i].key = 0 /\ requests[i].dec = 0)
          /\ pc[i] = "done"
                => (/\ requests[i].seg = 1
                    /\ (requests[i].key = 1 <=> parsed_m3u8[i].key_uri # NoUri)
                    /\ (requests[i].dec = 1 <=> parsed_m3u8[i].key_uri # NoUri))
    /\ Cardinality({i \in Tasks : requests[i].key > 0})
          <= Cardinality({i \in Tasks : parsed_m3u8[i].key_uri # NoUri})

C9_Witness ==
    \E i, j \in Tasks :
        /\ pc[i] = "done" /\ pc[j] = "done"
        /\ parsed_m3u8[i].key_uri = NoUri /\ parsed_m3u8[j].key_uri # NoUri
        /\ requests[i] = [seg |-> 1, key |-> 0, dec |-> 0]
        /\ requests[j] = [seg |-> 1, key |-> 1, dec |-> 1]
        /\ content[j] = PlainOf(j)

\* C10: a payload formed as IV followed by the CBC encryption of the padded
\* plaintext is decoded back to exactly the plaintext; the first 16 bytes of
\* the payload are the IV and only the bytes after them are the ciphertext.
C10_RoundTrip ==
    (dec.plain # None /\ dec.out.exc # "pending")
        => (/\ dec.out = [exc |-> NoExc, val |-> dec.plain]
            /\ IvOf(dec.data) = dec.iv
            /\ CipheredOf(dec.data) = CbcEncrypt(dec.key, dec.iv, Pad(dec.plain)))

C10_Witness ==
    /\ dec.plain # None
    /\ Len(dec.plain) > BLOCK_SIZE
    /\ dec.out = [exc |-> NoExc, val |-> dec.plain]

\* C12: when a task has timed out (its TimeoutError is the exception gather
\* holds), no sibling task is ever cancelled as a consequence.
C12_NoCrossCancellation ==
    gather_exc = "TimeoutError" => \A j \in Tasks : pc[j] # "cancelled"

\* C13 (as stated): the tasks that started their segment fetch and have not
\* finished their network and decryption work never outnumber the permits.
C13_PermitWholeUnit ==
    Cardinality({i \in Tasks : pc[i] \in {"get_seg", "acquire_key", "get_key"}})
        <= capacity

\* C13 (amended): a task takes one free permit for each request it issues and
\* gives it back when that request ends: the permit of the segment fetch is
\* not carried into the key fetch, which takes a permit of its own.
C13_PermitPerRequest ==
    [][\A i \in Tasks :
          /\ (pc[i] \notin InFlight /\ pc'[i] \in InFlight)
                => (semaphore > 0 /\ semaphore' = semaphore - 1)
          /\ (pc[i] \in InFlight /\ pc'[i] # pc[i])
                => (pc'[i] \notin InFlight /\ semaphore' > semaphore)]_vars

C13_Witness ==
    \E i, j \in Tasks :
        /\ capacity = 1 /\ semaphore = 0
        /\ pc[i] = "acquire_key" /\ requests[i].seg = 1
        /\ pc[j] = "get_seg"

\* C14: the final concatenation has run only in states where every task is
\* terminal: none is waiting for a permit, fetching or decrypting.
C14_JoinBarrier ==
    job \in {"returned", "join_raised"} => \A i \in Tasks : pc[i] \in Terminal

C14_Witness ==
    /\ job = "join_raised"
    /\ Len(parsed_m3u8) >= 2
    /\ \A i \in Tasks : pc[i] = "done"
    /\ \E i \in Tasks : requests[i].dec = 1

C17_PermitConservation ==
    /\ semaphore \in 0..capacity
    /\ semaphore + InFlightCount = capacity
    /\ job \in Ended => semaphore = capacity

C17_Witness ==
    /\ job = "run_raised"
    /\ semaphore = capacity
    /\ \E i, j \in Tasks :
          /\ pc[i] = "timeout" /\ requests[i].seg = 1
          /\ pc[j] = "cancelled" /\ requests[j] = [seg |-> 1, key |-> 1, dec |-> 0]

\* C19 (as stated): a task that ended in a timeout had issued its segment
\* request before.
C19_TimeoutOnlyAdmitted ==
    \A i \in Tasks : pc[i] = "timeout" => requests[i].seg >= 1

\* C19 (amended): the timeout covers the whole task, the wait for a permit
\* included: it fires only for a task that has started and not finished,
\* issues no request, and a task timed out while waiting gives no permit back.
C19_TimeoutCoversWaiting ==
    [][\A i \in Tasks :
          (pc'[i] = "timeout" /\ pc[i] # "timeout")
             => (/\ pc[i] \in Pending
                 /\ requests'[i] = requests[i]
                 /\ pc[i] \notin InFlight => semaphore' = semaphore)]_vars

C19_Witness ==
    \E i \in Tasks :
        /\ pc[i] = "timeout"
        /\ requests[i] = NoRequests
        /\ content[i] = None

\* the tasks not yet terminal all wait at the semaphore, no permit is free
\* and no request is in flight that could free one
Starved ==
    /\ job = "running"
    /\ \E i \in Tasks : pc[i] \in Pending
    /\ InFlightCount = 0
    /\ ~CanAcquire

\* steps a task at that position can still take
StepsLeft(at) ==
    CASE at = "created"     -> 5
      [] at = "acquire_seg" -> 4
      [] at = "get_seg"     -> 3
      [] at = "acquire_key" -> 2
      [] at = "get_key"     -> 1
      [] OTHER              -> 0

RECURSIVE TaskStepsLeft(_)
TaskStepsLeft(n) == IF n = 0 THEN 0 ELSE StepsLeft(pc[n]) + TaskStepsLeft(n - 1)

\* a bound on the steps the job, and the write that follows it, can still take
Rank ==
    TaskStepsLeft(Len(parsed_m3u8))
        + (IF job = "init" THEN 2 ELSE IF job = "running" THEN 1 ELSE 0)
        + (IF save.state = "pending" THEN 1 ELSE 0)

\* a step the job takes by itself, without waiting for the network or a timer
LoopStep ==
    \/ Gather \/ Propagate \/ Return
    \/ \E i \in Tasks : AcquireSeg(i) \/ AcquireKey(i)

\* C18: the job cannot run forever (every step lowers a bound on the steps
\* left) and cannot get stuck: while it has not ended, a request is in flight
\* (which is answered or timed out) or the job can take a step by itself.  So
\* it ends, by return or by raise; and in no reachable state do the unfinished
\* tasks all wait for a permit with no request in flight.
C18_Termination ==
    /\ [][Rank' < Rank]_vars
    /\ [](job \in Ended \/ InFlightCount > 0 \/ ENABLED LoopStep)
    /\ [](~Starved)

C18_Witness ==
    /\ job \in Ended
    /\ Len(parsed_m3u8) > capacity
    /\ \E i, j \in Tasks :
          /\ parsed_m3u8[i].key_uri = NoUri /\ parsed_m3u8[j].key_uri # NoUri
          /\ pc[i] = "done" /\ pc[j] = "done"

RECURSIVE LastSlash(_)
LastSlash(s) ==
    IF Len(s) = 0 THEN 0
    ELSE IF s[Len(s)] = "/" THEN Len(s)
    ELSE LastSlash(SubSeq(s, 1, Len(s) - 1))

\* the playlist locator with its final path component replaced by the name
FinalComponentReplaced(url, name) == SubSeq(url, 1, LastSlash(url)) \o name

\* C16: the URI requested for a segment is the playlist locator with its
\* final path component replaced by the segment's name and nothing else
\* changed, whatever the final component is and wherever else "index.m3u8"
\* occurs in the locator.
C16_FinalComponent ==
    res.uri # None => res.uri = FinalComponentReplaced(res.url, res.name)

\* the public method has ended / has ended by raising
OperationEnded == job \in {"run_raised", "join_raised"} \/ save.state # "pending"
OperationRaised == job \in {"run_raised", "join_raised"} \/ save.state = "raised"

\* C11: when the destination file exists already, every public download
\* method ends by raising an error and leaves the file's contents as they
\* were.
C11_DestinationExists ==
    (IsFile(files.before) /\ OperationEnded)
        => (OperationRaised /\ files.dest = files.before)

====
